---- MODULE Spec2Model ----
(***************************************************************************)
(* Model of smtcomp/generate_website_page.py: the single-query podium      *)
(* export.  export_results filters the results table, then for each        *)
(* grouping key (division, logic) computes one PodiumDivision per group    *)
(* value (sq_generate_datas / make_podium / podium_steps) and writes it to *)
(* <name.lower()>-single-query.md under the destination directory.         *)
(*                                                                         *)
(* Tables are bags (multisets) of rows.  Strings are sequences of          *)
(* character codes, so that str.lower(), string equality and the           *)
(* lexicographic order used by the sorts are computed, not assumed.        *)
(* Float scores are modelled by integers.                                  *)
(***************************************************************************)
EXTENDS Integers, Sequences, FiniteSets, TLC

VARIABLES selection, results, filtered, pass, datas, pending, files, pc

vars == <<selection, results, filtered, pass, datas, pending, files, pc>>

-----------------------------------------------------------------------------
(* Bounds of the model.                                                    *)

\* largest number of rows of the results table
MaxResults == 2

\* largest number of rows of the selection table
MaxSelection == 2

-----------------------------------------------------------------------------
(* Strings.                                                                *)

Range(s) == {s[i] : i \in DOMAIN s}

\* str.lower() on ASCII: 'A'..'Z' (65..90) become 'a'..'z'
LowerChar(c) == IF c >= 65 /\ c <= 90 THEN c + 32 ELSE c

Lower(s) == [i \in DOMAIN s |-> LowerChar(s[i])]

\* Python / polars string order: lexicographic on the raw characters
RECURSIVE StrLess(_, _)
StrLess(a, b) ==
    IF b = <<>> THEN FALSE
    ELSE IF a = <<>> THEN TRUE
    ELSE IF Head(a) # Head(b) THEN Head(a) < Head(b)
    ELSE StrLess(Tail(a), Tail(b))

\* "-"
NoWinner == <<45>>

\* "-single-query.md"
FileSuffix == <<45, 115, 105, 110, 103, 108, 101, 45, 113, 117, 101, 114, 121, 46, 109, 100>>

\* dst / f"{name.lower()}-single-query.md"
FileName(name) == Lower(name) \o FileSuffix

-----------------------------------------------------------------------------
(* Bags.                                                                   *)

SeqToBag(s) == [e \in Range(s) |-> Cardinality({i \in DOMAIN s : s[i] = e})]

BagsUpTo(Dom, n) == {SeqToBag(s) : s \in UNION {[1..k -> Dom] : k \in 0..n}}

\* sum of f[e] over the elements e of the set S
RECURSIVE SumOver(_, _)
SumOver(S, f) ==
    IF S = {} THEN 0
    ELSE LET e == CHOOSE x \in S : TRUE
         IN  f[e] + SumOver(S \ {e}, f)

\* number of rows of the bag B, pl.len()
BagLen(B) == SumOver(DOMAIN B, B)

\* the rows of B that satisfy keep, LazyFrame.filter
FilterRows(B, keep) == [e \in (DOMAIN B) \cap keep |-> B[e]]

-----------------------------------------------------------------------------
(* Enumerations of smtcomp.defs and the scoring module, which the export   *)
(* uses and does not define.                                               *)

\* defs.Division, by integer value
Divisions == {0, 1}

\* defs.Logic, by integer value
Logics == {0, 1, 2}

\* "Arith", "QF_LIA"
DivisionNames == <<<<65, 114, 105, 116, 104>>, <<81, 70, 95, 76, 73, 65>>>>

\* "QF_LRA", "QF_LIA", "LIA"
LogicNames == <<<<81, 70, 95, 76, 82, 65>>, <<81, 70, 95, 76, 73, 65>>, <<76, 73, 65>>>>

\* defs.Division.name_of_int
DivisionNameOfInt(d) == DivisionNames[d + 1]

\* defs.Logic.name_of_int
LogicNameOfInt(l) == LogicNames[l + 1]

\* the (division, logic) pairs of the benchmark library: Arith holds LIA,
\* QF_LIA holds QF_LRA and QF_LIA
BenchmarkGroups == {<<0, 2>>, <<1, 0>>, <<1, 1>>}

\* smtcomp.scoring.Kind, in declaration order
KindSeq == <<"seq", "par", "sat", "unsat", "twentyfour">>

Kinds == Range(KindSeq)

\* smtcomp.scoring.known_answer, sat_answer, unsat_answer, unknown_answer,
\* timeout_answer, memout_answer: 1 when the row is of the class, else 0.
\* The answers (defs.Answer) are "Sat", "Unsat", "Unknown", "Timeout" and
\* "Memout"; the tracks (defs.Track) are "SingleQuery" and "Incremental".
known_answer(r) == IF r.answer \in {"Sat", "Unsat"} THEN 1 ELSE 0

sat_answer(r) == IF r.answer = "Sat" THEN 1 ELSE 0

unsat_answer(r) == IF r.answer = "Unsat" THEN 1 ELSE 0

unknown_answer(r) == IF r.answer = "Unknown" THEN 1 ELSE 0

timeout_answer(r) == IF r.answer = "Timeout" THEN 1 ELSE 0

memout_answer(r) == IF r.answer = "Memout" THEN 1 ELSE 0

\* smtcomp.scoring.filter_for: the rows eligible for the variant; which
\* variants a row is eligible for is carried by the row (field kinds)
filter_for(kind, rows) == FilterRows(rows, {r \in DOMAIN rows : kind \in r.kinds})

\* smtcomp.utils.intersect(results, len_by_division, on=[group_by]): the
\* inner join, the rows whose group value has a total
intersect(rows, totals, for_division) ==
    FilterRows(rows, {r \in DOMAIN rows :
        (IF for_division THEN r.division ELSE r.logic) \in DOMAIN totals})

-----------------------------------------------------------------------------
(* sq_generate_datas: the aggregation of one grouping key.                 *)

\* the column named by group_by
GroupBy(r, for_division) == IF for_division THEN r.division ELSE r.logic

\* pl.sum(column) and (predicate).sum() over the rows of a group; f gives
\* the value of the column or predicate in each row
Agg(B, f) == SumOver(DOMAIN B, [r \in DOMAIN B |-> B[r] * f[r]])

\* UInt32 subtraction of polars, which wraps around: the difference modulo
\* 2^32, as two 16-bit limbs (value = hi * 65536 + lo)
UInt32Sub(a, b) ==
    IF a >= b THEN [hi |-> 0, lo |-> a - b]
    ELSE [hi |-> 65535, lo |-> 65536 - (b - a)]

\* selection.filter(selected=True)
SelectedRows(sel) == FilterRows(sel, {s \in DOMAIN sel : s.selected})

\* results.filter(track=int(defs.Track.SingleQuery))
SingleQueryRows(rows) == FilterRows(rows, {r \in DOMAIN rows : r.track = "SingleQuery"})

\* selection.group_by(group_by).agg(total=pl.len())
len_by_division(sel, for_division) ==
    [g \in {GroupBy(s, for_division) : s \in DOMAIN sel} |->
        BagLen(FilterRows(sel, {s \in DOMAIN sel : GroupBy(s, for_division) = g}))]

\* selection.group_by("division", "logic").agg(n=pl.len())
\*          .group_by("division").agg(logics=pl.struct("logic", "n"))
lf_logics(sel) ==
    [g \in {s.division : s \in DOMAIN sel} |->
        {[logic |-> l,
          n |-> BagLen(FilterRows(sel, {s \in DOMAIN sel : s.division = g /\ s.logic = l}))] :
            l \in {s.logic : s \in {t \in DOMAIN sel : t.division = g}}}]

\* smtcomp.scoring.scores
scores == <<"error_score", "correctly_solved_score", "cpu_time_score", "wallclock_time_score">>

\* the sort with the solver column ascending (a slip in the descending flags)
RECURSIVE SortsBeforeSolverAscending(_, _, _)
SortsBeforeSolverAscending(cols, a, b) ==
    IF cols = <<>> THEN StrLess(a.solver, b.solver)
    ELSE IF a[Head(cols)] # b[Head(cols)] THEN a[Head(cols)] > b[Head(cols)]
    ELSE SortsBeforeSolverAscending(Tail(cols), a, b)

\* the order of sort(cols + ["solver"], descending=True): a comes before b
RECURSIVE SortsBefore(_, _, _)
SortsBefore(cols, a, b) ==
    IF cols = <<>> THEN StrLess(b.solver, a.solver)
    ELSE IF a[Head(cols)] # b[Head(cols)] THEN a[Head(cols)] > b[Head(cols)]
    ELSE SortsBefore(Tail(cols), a, b)

\* .sort([group_by] + smtcomp.scoring.scores + ["solver"], descending=True)
RECURSIVE SortDescending(_)
SortDescending(S) ==
    IF S = {} THEN <<>>
    ELSE LET first == CHOOSE x \in S :
                 \A y \in S \ {x} : ~SortsBefore(<<"group">> \o scores, y, x)
         IN  <<first>> \o SortDescending(S \ {first})

\* the aggregate with solved counting the sat answers only
SolverAggregateSatOnly(rows, total, g, solver) ==
    [group |-> g,
     solver |-> solver,
     error_score |-> Agg(rows, [r \in DOMAIN rows |-> r.error_score]),
     correctly_solved_score |-> Agg(rows, [r \in DOMAIN rows |-> r.correctly_solved_score]),
     cpu_time_score |-> Agg(rows, [r \in DOMAIN rows |-> r.cpu_time_score]),
     wallclock_time_score |-> Agg(rows, [r \in DOMAIN rows |-> r.wallclock_time_score]),
     solved |-> Agg(rows, [r \in DOMAIN rows |-> sat_answer(r)]),
     solved_sat |-> Agg(rows, [r \in DOMAIN rows |-> sat_answer(r)]),
     solved_unsat |-> Agg(rows, [r \in DOMAIN rows |-> unsat_answer(r)]),
     unsolved |-> Agg(rows, [r \in DOMAIN rows |-> unknown_answer(r)]),
     timeout |-> Agg(rows, [r \in DOMAIN rows |-> timeout_answer(r)]),
     memout |-> Agg(rows, [r \in DOMAIN rows |-> memout_answer(r)]),
     abstained |-> UInt32Sub(total, BagLen(rows))]

\* the aggregate of one (group, solver): .group_by(group_by, "solver").agg(...)
SolverAggregate(rows, total, g, solver) ==
    [group |-> g,
     solver |-> solver,
     error_score |-> Agg(rows, [r \in DOMAIN rows |-> r.error_score]),
     correctly_solved_score |-> Agg(rows, [r \in DOMAIN rows |-> r.correctly_solved_score]),
     cpu_time_score |-> Agg(rows, [r \in DOMAIN rows |-> r.cpu_time_score]),
     wallclock_time_score |-> Agg(rows, [r \in DOMAIN rows |-> r.wallclock_time_score]),
     solved |-> Agg(rows, [r \in DOMAIN rows |-> known_answer(r)]),
     solved_sat |-> Agg(rows, [r \in DOMAIN rows |-> sat_answer(r)]),
     solved_unsat |-> Agg(rows, [r \in DOMAIN rows |-> unsat_answer(r)]),
     unsolved |-> Agg(rows, [r \in DOMAIN rows |-> unknown_answer(r)]),
     timeout |-> Agg(rows, [r \in DOMAIN rows |-> timeout_answer(r)]),
     memout |-> Agg(rows, [r \in DOMAIN rows |-> memout_answer(r)]),
     abstained |-> UInt32Sub(total, BagLen(rows))]

\* info_for_podium_step: per group value that has rows, the ranked list
info_for_podium_step(kind, rows, totals, for_division) ==
    LET eligible == intersect(filter_for(kind, rows), totals, for_division)
        keys == {<<GroupBy(r, for_division), r.solver>> : r \in DOMAIN eligible}
        of(k) == FilterRows(eligible, {r \in DOMAIN eligible :
                     GroupBy(r, for_division) = k[1] /\ r.solver = k[2]})
        sorted == SortDescending({SolverAggregate(of(k), totals[k[1]], k[1], k[2]) : k \in keys})
    IN  [g \in {k[1] : k \in keys} |-> SelectSeq(sorted, LAMBDA a : a.group = g)]

\* the join with how="inner": a group value some variant has no rows for
\* loses its row
JoinedRowsInner(sel, rows, for_division) ==
    LET selected == SelectedRows(sel)
        sq == SingleQueryRows(rows)
        totals == len_by_division(selected, for_division)
        logics == IF for_division THEN lf_logics(selected) ELSE <<>>
        podium == [k \in Kinds |-> info_for_podium_step(k, sq, totals, for_division)]
    IN  {[group |-> g,
          total |-> totals[g],
          logics |-> IF for_division THEN logics[g] ELSE {},
          podium |-> [k \in Kinds |-> [is_none |-> FALSE, list |-> podium[k][g]]]] :
              g \in {x \in DOMAIN totals : \A k \in Kinds : x \in DOMAIN podium[k]}}

\* functools.reduce(... x.join(y, validate="1:1", on=[group_by], how="left"))
\* and df.to_dicts(): one row per group value of len_by_division; a group
\* value a table has no row for gets None
JoinedRows(sel, rows, for_division) ==
    LET selected == SelectedRows(sel)
        sq == SingleQueryRows(rows)
        totals == len_by_division(selected, for_division)
        logics == IF for_division THEN lf_logics(selected) ELSE <<>>
        podium == [k \in Kinds |-> info_for_podium_step(k, sq, totals, for_division)]
    IN  {[group |-> g,
          total |-> totals[g],
          logics |-> IF for_division THEN logics[g] ELSE {},
          podium |-> [k \in Kinds |->
              IF g \in DOMAIN podium[k]
              THEN [is_none |-> FALSE, list |-> podium[k][g]]
              ELSE [is_none |-> TRUE, list |-> <<>>]]] : g \in DOMAIN totals}

-----------------------------------------------------------------------------
(* make_podium and podium_steps: the record of one group value.            *)

\* the PodiumDivision field that holds the list of a variant
ListField == [seq |-> "sequential", par |-> "parallel", sat |-> "sat",
              unsat |-> "unsat", twentyfour |-> "twentyfour"]

\* the PodiumDivision field that holds the winner of a variant
WinnerField == [seq |-> "winner_seq", par |-> "winner_par", sat |-> "winner_sat",
                unsat |-> "winner_unsat", twentyfour |-> "winner_24s"]

\* PodiumStep(...) of one struct of the list
PodiumStep(s) ==
    [name |-> s.solver,
     competing |-> "yes",
     errorScore |-> 0 - s.error_score,
     correctScore |-> s.correctly_solved_score,
     CPUScore |-> s.cpu_time_score,
     WallScore |-> s.wallclock_time_score,
     solved |-> s.solved,
     solved_sat |-> s.solved_sat,
     solved_unsat |-> s.solved_unsat,
     unsolved |-> s.unsolved,
     abstained |-> s.abstained,
     timeout |-> s.timeout,
     memout |-> s.memout]

\* podium_steps(podium)
podium_steps(podium) ==
    IF podium.is_none THEN <<>>
    ELSE [i \in DOMAIN podium.list |-> PodiumStep(podium.list[i])]

\* get_winner without the test of the first entry's score
get_winner_first(l) ==
    IF l.is_none THEN NoWinner
    ELSE l.list[1].solver

\* make_podium.get_winner(l)
get_winner(l) ==
    IF l.is_none \/ l.list[1].correctly_solved_score = 0 THEN NoWinner
    ELSE l.list[1].solver

\* the order of sorted(..., reverse=True)
ItemGreater(a, b) == IF a[1] # b[1] THEN StrLess(b[1], a[1]) ELSE a[2] > b[2]

\* sorted(logics.items()): ascending by (key, value)
ItemLess(a, b) == IF a[1] # b[1] THEN StrLess(a[1], b[1]) ELSE a[2] < b[2]

RECURSIVE SortedItems(_)
SortedItems(S) ==
    IF S = {} THEN <<>>
    ELSE LET first == CHOOSE x \in S : \A y \in S \ {x} : ~ItemLess(y, x)
         IN  <<first>> \o SortedItems(S \ {first})

\* name_of_int of the grouping key
NameOfInt(g, for_division) == IF for_division THEN DivisionNameOfInt(g) ELSE LogicNameOfInt(g)

\* make_podium(config, d, for_division); a dict is the sequence of its
\* (key, value) items.  The fields echoed from the configuration (year,
\* limits, labels) are the same in every record and are left out.
make_podium(d, for_division) ==
    [division |-> NameOfInt(d.group, for_division),
     track |-> "track_single_query",
     n_benchmarks |-> d.total,
     logics |-> IF for_division
                THEN SortedItems({<<LogicNameOfInt(d2.logic), d2.n>> : d2 \in d.logics})
                ELSE <<>>,
     winner_seq |-> get_winner(d.podium["seq"]),
     winner_par |-> get_winner(d.podium["par"]),
     winner_sat |-> get_winner(d.podium["sat"]),
     winner_unsat |-> get_winner(d.podium["unsat"]),
     winner_24s |-> get_winner(d.podium["twentyfour"]),
     sequential |-> podium_steps(d.podium["seq"]),
     parallel |-> podium_steps(d.podium["par"]),
     sat |-> podium_steps(d.podium["sat"]),
     unsat |-> podium_steps(d.podium["unsat"]),
     twentyfour |-> podium_steps(d.podium["twentyfour"]),
     layout |-> "result"]

\* sq_generate_datas(config, selection, results, for_division): the dict
\* from display name to PodiumDivision
sq_generate_datas(sel, rows, for_division) ==
    LET df == JoinedRows(sel, rows, for_division)
    IN  [name \in {NameOfInt(d.group, for_division) : d \in df} |->
            make_podium(CHOOSE d \in df : NameOfInt(d.group, for_division) = name,
                        for_division)]

-----------------------------------------------------------------------------
(* The input tables.                                                       *)

\* solver identifiers "A", "B"
Solvers == {<<65>>, <<66>>}

\* what a solver run can come to: the answer and the four scores the
\* scoring module gave it (times count against a solver, errors too)
Outcomes ==
    {[answer |-> "Sat", error_score |-> 0, correctly_solved_score |-> 1,
      cpu_time_score |-> -1, wallclock_time_score |-> -1],
     [answer |-> "Sat", error_score |-> 0, correctly_solved_score |-> 1,
      cpu_time_score |-> -1, wallclock_time_score |-> -2],
     [answer |-> "Unsat", error_score |-> 0, correctly_solved_score |-> 1,
      cpu_time_score |-> -2, wallclock_time_score |-> 0],
     [answer |-> "Sat", error_score |-> -1, correctly_solved_score |-> 0,
      cpu_time_score |-> 0, wallclock_time_score |-> 0],
     [answer |-> "Unknown", error_score |-> 0, correctly_solved_score |-> 0,
      cpu_time_score |-> 0, wallclock_time_score |-> 0],
     [answer |-> "Timeout", error_score |-> 0, correctly_solved_score |-> 0,
      cpu_time_score |-> 0, wallclock_time_score |-> 0],
     [answer |-> "Memout", error_score |-> 0, correctly_solved_score |-> 0,
      cpu_time_score |-> 0, wallclock_time_score |-> 0]}

Solved == CHOOSE o \in Outcomes :
    o.answer = "Sat" /\ o.correctly_solved_score = 1 /\ o.wallclock_time_score = -1

\* one row of the results table
ResultRow(solver, group, track, disagreements, kinds, o) ==
    [solver |-> solver, division |-> group[1], logic |-> group[2], track |-> track,
     disagreements |-> disagreements, kinds |-> kinds,
     answer |-> o.answer, error_score |-> o.error_score,
     correctly_solved_score |-> o.correctly_solved_score,
     cpu_time_score |-> o.cpu_time_score,
     wallclock_time_score |-> o.wallclock_time_score]

\* rows of every outcome, in the logic QF_LIA of the division QF_LIA
ScoredRows ==
    {ResultRow(s, <<1, 1>>, "SingleQuery", FALSE, Kinds, o) : s \in Solvers, o \in Outcomes}

\* solved rows of every group, track and disagreement flag, and rows of a
\* benchmark the unsat variant leaves out
FlaggedRows ==
    {ResultRow(s, g, "SingleQuery", FALSE, Kinds, Solved) : s \in Solvers, g \in BenchmarkGroups}
    \cup {ResultRow(s, <<1, 1>>, "SingleQuery", TRUE, Kinds, Solved) : s \in Solvers}
    \cup {ResultRow(<<65>>, <<1, 1>>, "Incremental", FALSE, Kinds, Solved),
          ResultRow(<<65>>, <<1, 1>>, "SingleQuery", FALSE, Kinds \ {"unsat"}, Solved)}

\* the rows of the selection table
SelectionRows == [division : Divisions, logic : Logics, selected : BOOLEAN]

LibraryRows == {s \in SelectionRows : <<s.division, s.logic>> \in BenchmarkGroups}

-----------------------------------------------------------------------------
(* export_results.                                                         *)

\* for for_division in [True, False]
Passes == <<TRUE, FALSE>>

EmptyTable == [e \in {} |-> 0]

Init ==
    /\ \/ /\ selection \in BagsUpTo({s \in LibraryRows : s.selected}, MaxSelection)
          /\ results \in BagsUpTo(ScoredRows, MaxResults)
       \/ /\ selection \in BagsUpTo(LibraryRows, MaxSelection)
          /\ results \in BagsUpTo(FlaggedRows, MaxResults)
    /\ filtered = EmptyTable
    /\ pass = 1
    /\ datas = EmptyTable
    /\ pending = {}
    /\ files = EmptyTable
    /\ pc = "filter"

\* export_results without the filter on the disagreement flag
KeepDisagreements ==
    /\ pc = "filter"
    /\ filtered' = results
    /\ pc' = "generate"
    /\ UNCHANGED <<selection, results, pass, datas, pending, files>>

\* results = results.filter(disagreements=False).drop("disagreements")
FilterDisagreements ==
    /\ pc = "filter"
    /\ filtered' = FilterRows(results, {r \in DOMAIN results : ~r.disagreements})
    /\ pc' = "generate"
    /\ UNCHANGED <<selection, results, pass, datas, pending, files>>

\* sq_generate_datas(config, selection, results, for_division).items()
GenerateDatas ==
    /\ pc = "generate"
    /\ datas' = sq_generate_datas(selection, filtered, Passes[pass])
    /\ pending' = DOMAIN datas'
    /\ pc' = "write"
    /\ UNCHANGED <<selection, results, filtered, pass, files>>

\* (dst / f"{name.lower()}-single-query.md").write_text(...): the file is
\* created or replaced.  The rows of df come in no fixed order (group_by
\* without maintain_order), so any pending item may be the next one.
WriteFile ==
    /\ pc = "write"
    /\ \E name \in pending :
        /\ files' = [f \in DOMAIN files \cup {FileName(name)} |->
                        IF f = FileName(name) THEN datas[name] ELSE files[f]]
        /\ pending' = pending \ {name}
    /\ UNCHANGED <<selection, results, filtered, pass, datas, pc>>

\* what a file holds when write_text failed after open(mode="w") cut it to
\* length 0: nothing, or a part of the text, and no record
TruncatedFile == [layout |-> "truncated"]

\* write_text raises (OSError) on one of the pending items: nothing catches
\* it, the run ends.  write_text is open(mode="w") followed by write: when
\* open() fails the destination is as it was; when the write fails after
\* the open, the file is there and whatever it held before is gone.
WriteFails ==
    /\ pc = "write"
    /\ \E name \in pending :
        \/ files' = files
        \/ files' = [f \in DOMAIN files \cup {FileName(name)} |->
                        IF f = FileName(name) THEN TruncatedFile ELSE files[f]]
    /\ pc' = "failed"
    /\ UNCHANGED <<selection, results, filtered, pass, datas, pending>>

\* the end of one iteration of the for_division loop
NextPass ==
    /\ pc = "write"
    /\ pending = {}
    /\ pass' = pass + 1
    /\ pc' = IF pass = Len(Passes) THEN "done" ELSE "generate"
    /\ UNCHANGED <<selection, results, filtered, datas, pending, files>>

Next == FilterDisagreements \/ GenerateDatas \/ WriteFile \/ WriteFails \/ NextPass

Spec == Init /\ [][Next]_vars

-----------------------------------------------------------------------------
(* What the claims are stated in: counts taken directly from the input     *)
(* tables, and the records of the pass under way.                          *)

\* the grouping key of the records in datas (while they are being written)
ForDivision == Passes[pass]

GroupValues == IF ForDivision THEN Divisions ELSE Logics

NameOf(g) == NameOfInt(g, ForDivision)

\* the group values that have a record in datas
Recorded == {g \in GroupValues : NameOf(g) \in DOMAIN datas}

\* total(G): the number of selected benchmarks of the group value g
Total(g) ==
    SumOver({s \in DOMAIN selection : s.selected /\ GroupBy(s, ForDivision) = g}, selection)

\* the distinct result rows that count for (g, kind): single-query track,
\* not flagged as a disagreement, eligible for the variant
Contributing(g, kind) ==
    {r \in DOMAIN results :
        /\ GroupBy(r, ForDivision) = g
        /\ r.track = "SingleQuery"
        /\ ~r.disagreements
        /\ kind \in r.kinds}

RowsOfSolver(g, kind, solver) == {r \in Contributing(g, kind) : r.solver = solver}

\* the number of rows of the results table among the distinct rows S
RowCount(S) == SumOver(S, results)

\* the ranked list of the variant in the record of g
ListOf(g, kind) == datas[NameOf(g)][ListField[kind]]

WinnerOf(g, kind) == datas[NameOf(g)][WinnerField[kind]]

\* a UInt32 count read as the number n
IsNumber(u, n) == u.hi = 0 /\ u.lo = n

-----------------------------------------------------------------------------
(* C1 *)

\* C1: for every group value and every variant, the winner of the record is
\* "-" exactly when the variant's list is empty or its first entry has
\* correctScore 0; otherwise it is the name of the first entry.  So when all
\* entries have correctScore 0 the winner is "-".
C1_WinnerRule ==
    pc = "write" =>
        \A g \in Recorded : \A k \in Kinds :
            LET list == ListOf(g, k)
                w == WinnerOf(g, k)
            IN  /\ (w = NoWinner) <=> (list = <<>> \/ list[1].correctScore = 0)
                /\ w # NoWinner => w = list[1].name
                /\ (\A i \in DOMAIN list : list[i].correctScore = 0) => w = NoWinner

\* a list of two solvers who all scored 0, and a list led by a scoring solver
C1_Witness ==
    /\ pc = "write"
    /\ \E g \in Recorded :
        /\ Len(ListOf(g, "seq")) = 2
        /\ \A i \in 1..2 : ListOf(g, "seq")[i].correctScore = 0
        /\ WinnerOf(g, "seq") = NoWinner
        /\ WinnerOf(g, "unsat") = NoWinner

-----------------------------------------------------------------------------
(* C2 *)

\* C2: for every group value G, variant and entry of the ranked list,
\* solved + unsolved + timeout + memout + abstained = total(G).
C2_CountsSumToTotal ==
    pc = "write" =>
        \A g \in Recorded : \A k \in Kinds :
            \A i \in DOMAIN ListOf(g, k) :
                LET e == ListOf(g, k)[i]
                IN  /\ e.abstained.hi = 0
                    /\ e.solved + e.unsolved + e.timeout + e.memout + e.abstained.lo = Total(g)

-----------------------------------------------------------------------------
(* C3 *)

\* the tuple (error_score, correctly_solved_score, cpu_time_score,
\* wallclock_time_score, solver) of entry a is strictly greater than b's
TupleGreater(a, b) ==
    \/ 0 - a.errorScore > 0 - b.errorScore
    \/ /\ a.errorScore = b.errorScore
       /\ \/ a.correctScore > b.correctScore
          \/ /\ a.correctScore = b.correctScore
             /\ \/ a.CPUScore > b.CPUScore
                \/ /\ a.CPUScore = b.CPUScore
                   /\ \/ a.WallScore > b.WallScore
                      \/ /\ a.WallScore = b.WallScore
                         /\ StrLess(b.name, a.name)

\* C3: every ranked list names a solver at most once and is strictly
\* descending on (error_score, correctly_solved_score, cpu_time_score,
\* wallclock_time_score, solver): each entry is strictly greater than the next.
C3_StrictlyDescending ==
    pc = "write" =>
        \A g \in Recorded : \A k \in Kinds :
            LET list == ListOf(g, k)
            IN  /\ \A i, j \in DOMAIN list : i # j => list[i].name # list[j].name
                /\ \A i \in DOMAIN list : i < Len(list) => TupleGreater(list[i], list[i + 1])

\* two solvers with the same four score sums, ordered by identifier alone
C3_Witness ==
    /\ pc = "write"
    /\ \E g \in Recorded :
        LET list == ListOf(g, "seq")
        IN  /\ Len(list) = 2
            /\ list[1].errorScore = list[2].errorScore
            /\ list[1].correctScore = list[2].correctScore
            /\ list[1].CPUScore = list[2].CPUScore
            /\ list[1].WallScore = list[2].WallScore
            /\ list[1].correctScore = 1

-----------------------------------------------------------------------------
(* C4 *)

\* the sum of a column over the rows S of the results table
ColumnSum(S, col) == SumOver(S, [r \in S |-> results[r] * r[col]])

\* the results table without its disagreement-flagged rows
Unflagged == [r \in {x \in DOMAIN results : ~x.disagreements} |-> results[r]]

\* C4: a row flagged as a disagreement contributes to no list, score sum or
\* outcome count: every list names exactly the solvers that have unflagged
\* rows for it, every score sum and the counted rows of an entry are those of
\* its unflagged rows, and the records are the ones the table without its
\* flagged rows gives (compared when they are produced, before the first write;
\* the writes leave datas as it is).
C4_DisagreementsExcluded ==
    pc = "write" =>
        /\ pending = DOMAIN datas =>
                datas = sq_generate_datas(selection, Unflagged, ForDivision)
        /\ \A g \in Recorded : \A k \in Kinds :
            LET list == ListOf(g, k)
            IN  /\ {list[i].name : i \in DOMAIN list} = {r.solver : r \in Contributing(g, k)}
                /\ \A i \in DOMAIN list :
                    LET e == list[i]
                        rows == RowsOfSolver(g, k, e.name)
                    IN  /\ e.solved + e.unsolved + e.timeout + e.memout = RowCount(rows)
                        /\ e.correctScore = ColumnSum(rows, "correctly_solved_score")
                        /\ 0 - e.errorScore = ColumnSum(rows, "error_score")
                        /\ e.CPUScore = ColumnSum(rows, "cpu_time_score")
                        /\ e.WallScore = ColumnSum(rows, "wallclock_time_score")

\* a solver whose only row in a recorded group is flagged, beside a solver
\* whose row counts
C4_Witness ==
    /\ pc = "write"
    /\ \E g \in Recorded : \E r \in DOMAIN results :
        /\ r.disagreements
        /\ GroupBy(r, ForDivision) = g
        /\ RowsOfSolver(g, "seq", r.solver) = {}
        /\ Len(ListOf(g, "seq")) = 1

-----------------------------------------------------------------------------
(* C5 *)

\* C5: a group value with a selected benchmark and no eligible row for a
\* variant still has its one record, with n_benchmarks the number of selected
\* benchmarks, the empty list and the winner "-" for that variant; the lists
\* of the variants that have rows are not empty.  There is one record per
\* group value with a selected benchmark.
C5_EmptyVariantKeepsRecord ==
    pc = "write" =>
        /\ Recorded = {g \in GroupValues : Total(g) >= 1}
        /\ Cardinality(DOMAIN datas) = Cardinality(Recorded)
        /\ \A g \in Recorded :
            /\ datas[NameOf(g)].n_benchmarks = Total(g)
            /\ datas[NameOf(g)].division = NameOf(g)
            /\ \A k \in Kinds :
                IF Contributing(g, k) = {}
                THEN ListOf(g, k) = <<>> /\ WinnerOf(g, k) = NoWinner
                ELSE ListOf(g, k) # <<>>

\* a group with rows for the sequential variant and none for the unsat one
C5_Witness ==
    /\ pc = "write"
    /\ \E g \in Recorded :
        /\ Contributing(g, "unsat") = {}
        /\ Contributing(g, "seq") # {}
        /\ ListOf(g, "unsat") = <<>>
        /\ WinnerOf(g, "seq") # NoWinner

-----------------------------------------------------------------------------
(* C6 *)

\* C6: no record is produced when some solver has more rows in a group, for
\* a variant, than the group has selected benchmarks: the run has aborted.
C6_AbortsOnNegativeAbstained ==
    pc = "write" =>
        \A g \in Recorded : \A k \in Kinds : \A s \in Solvers :
            RowCount(RowsOfSolver(g, k, s)) <= Total(g)

-----------------------------------------------------------------------------
(* C7 *)

\* C7: when the run has failed, the records of the grouping key under way
\* have all been written or none has.
C7_AllOrNothing ==
    pc = "failed" => pending = {} \/ pending = DOMAIN datas

-----------------------------------------------------------------------------
(* C8 *)

\* the entries of the list that name the solver
EntriesOf(list, solver) == {i \in DOMAIN list : list[i].name = solver}

\* C8 as stated: a solver without rows in a group for a variant is in the
\* list all the same (here: the list of a group other solvers have rows in),
\* with solved 0, correctScore 0 and abstained total(G).
C8_AbsentSolverListed ==
    pc = "write" =>
        \A g \in Recorded : \A k \in Kinds : \A s \in Solvers :
            (Contributing(g, k) # {} /\ RowsOfSolver(g, k, s) = {}) =>
                \E i \in EntriesOf(ListOf(g, k), s) :
                    /\ ListOf(g, k)[i].solved = 0
                    /\ ListOf(g, k)[i].correctScore = 0
                    /\ IsNumber(ListOf(g, k)[i].abstained, Total(g))

\* the rows of solver "A" in (g, seq) are one sat and one unsat answer, each
\* scored 1, "B" has none, and g has two selected benchmarks
TwoSolvedByA(g) ==
    /\ Total(g) = 2
    /\ RowsOfSolver(g, "seq", <<66>>) = {}
    /\ RowCount(RowsOfSolver(g, "seq", <<65>>)) = 2
    /\ {r.answer : r \in RowsOfSolver(g, "seq", <<65>>)} = {"Sat", "Unsat"}
    /\ \A r \in RowsOfSolver(g, "seq", <<65>>) : r.correctly_solved_score = 1

\* C8, amended: a solver without rows in a group for a variant is not in
\* that list; every entry stands for at least one row, and when its rows are
\* no more than total(G) its abstained is total(G) minus their number.  With
\* total 2, "A" solving both (one sat, one unsat) and "B" without rows, the
\* sequential list is [A (solved 2, solved_sat 1, solved_unsat 1, abstained 0,
\* correctScore 2)] and the winner is "A".
C8_OnlySolversWithRows ==
    pc = "write" =>
        \A g \in Recorded :
            /\ \A k \in Kinds :
                /\ \A s \in Solvers :
                    RowsOfSolver(g, k, s) = {} => EntriesOf(ListOf(g, k), s) = {}
                /\ \A i \in DOMAIN ListOf(g, k) :
                    LET e == ListOf(g, k)[i]
                        n == RowCount(RowsOfSolver(g, k, e.name))
                    IN  /\ n >= 1
                        /\ n <= Total(g) => IsNumber(e.abstained, Total(g) - n)
            /\ TwoSolvedByA(g) =>
                /\ Len(ListOf(g, "seq")) = 1
                /\ ListOf(g, "seq")[1].name = <<65>>
                /\ ListOf(g, "seq")[1].solved = 2
                /\ ListOf(g, "seq")[1].solved_sat = 1
                /\ ListOf(g, "seq")[1].solved_unsat = 1
                /\ IsNumber(ListOf(g, "seq")[1].abstained, 0)
                /\ ListOf(g, "seq")[1].correctScore = 2
                /\ WinnerOf(g, "seq") = <<65>>

\* the records of the scenario are being written
C8_Witness ==
    /\ pc = "write"
    /\ \E g \in Recorded : TwoSolvedByA(g) /\ Len(ListOf(g, "seq")) = 1

-----------------------------------------------------------------------------
(* C9 *)

\* the number of selected benchmarks of logic l in division d
SelectedIn(d, l) ==
    SumOver({s \in DOMAIN selection : s.selected /\ s.division = d /\ s.logic = l}, selection)

\* C9: the logic breakdown of the record of a division D maps exactly the
\* logics with a selected benchmark in D to their number of selected
\* benchmarks in D, in ascending order of the logic name, and the numbers sum
\* to n_benchmarks; the breakdown of the record of a logic is empty.
C9_LogicBreakdown ==
    pc = "write" =>
        \A g \in Recorded :
            LET lg == datas[NameOf(g)].logics
            IN  IF ForDivision
                THEN /\ {lg[i][1] : i \in DOMAIN lg} =
                            {LogicNameOfInt(l) : l \in {x \in Logics : SelectedIn(g, x) >= 1}}
                     /\ \A i \in DOMAIN lg : \A l \in Logics :
                            lg[i][1] = LogicNameOfInt(l) => lg[i][2] = SelectedIn(g, l)
                     /\ \A i \in DOMAIN lg : i < Len(lg) => StrLess(lg[i][1], lg[i + 1][1])
                     /\ SumOver(DOMAIN lg, [i \in DOMAIN lg |-> lg[i][2]])
                            = datas[NameOf(g)].n_benchmarks
                ELSE lg = <<>>

\* a division whose breakdown has two logics
C9_Witness ==
    /\ pc = "write"
    /\ ForDivision
    /\ \E g \in Recorded : Len(datas[NameOf(g)].logics) = 2

-----------------------------------------------------------------------------
(* C10 *)

\* C10: after a successful run every record computed for a grouping key and
\* group value is in its file at the destination.
C10_EveryRecordKept ==
    pc = "done" =>
        \A for_division \in BOOLEAN :
            LET computed == sq_generate_datas(selection, filtered, for_division)
            IN  \A name \in DOMAIN computed :
                    /\ FileName(name) \in DOMAIN files
                    /\ files[FileName(name)] = computed[name]

====
